---------------------------- MODULE Spec2Model ----------------------------
(***************************************************************************)
(* A model of serializable/helpers.py: the recursive encoder               *)
(* (to_serializable_repr), the recursive decoder (from_serializable_repr), *)
(* the key codec for non-string dictionary keys and the reference resolver *)
(* (_lookup_value) with its process-wide cache.                            *)
(*                                                                         *)
(* Python values are pairs <<kind, payload>>:                              *)
(*   none / bool / int      payload 0, a BOOLEAN, an integer               *)
(*   str                    payload a sequence of chunks (TLA+ strings);   *)
(*                          a chunk is an indivisible piece of text        *)
(*   list / tuple           payload the sequence of elements               *)
(*   dict                   payload the sequence of <<key, value>> items   *)
(*                          in insertion order, keys pairwise distinct     *)
(*   fn / cls / mod / meth  payload the identity of the live object        *)
(*   obj                    payload [cls, state]: an instance and the      *)
(*                          mapping its to_dict / _asdict returns          *)
(*   err                    payload the kind of the exception raised       *)
(***************************************************************************)
EXTENDS Integers, Sequences, FiniteSets, TLC

VARIABLES
    x,        \* the value the caller holds and hands to the encoder
    ir,       \* the representation object handed to the decoder (mutable)
    ir0,      \* ir as it was when it was handed to the decoder the first time
    out,      \* what the last encode / decode / lookup returned or raised
    out0,     \* what the first decode of ir returned or raised
    calls,    \* the constructor invocations the last decode made
    cache,    \* _lookup_value's _cache
    attrs,    \* the process image: attributes of modules and classes
    first,    \* history: the value each cache key got when it was stored
    pc        \* the caller's position

vars == <<x, ir, ir0, out, out0, calls, cache, attrs, first, pc>>

---------------------------------------------------------------------------
(* Bounds of the model. *)

\* nodes (containers and leaves) in a value the caller builds
MaxSize == 3
\* the integers the caller uses are 1 .. MaxInt
MaxInt == 2
\* a foreign representation uses placeholder indices -1 .. MaxIndex
MaxIndex == 1

---------------------------------------------------------------------------
(* Value constructors. *)

PyNone == <<"none", 0>>
PyBool(b) == <<"bool", b>>
PyInt(n) == <<"int", n>>
PyStr(chunks) == <<"str", chunks>>
S(name) == PyStr(<<name>>)
PyList(elems) == <<"list", elems>>
PyTuple(elems) == <<"tuple", elems>>
PyDict(items) == <<"dict", items>>
Fn(id) == <<"fn", id>>
Meth(id) == <<"meth", id>>
Cls(id) == <<"cls", id>>
Mod(id) == <<"mod", id>>
Obj(cls, state) == <<"obj", [cls |-> cls, state |-> state]>>
Err(kind) == <<"err", kind>>

IsErr(val) == val[1] = "err"

(* The exceptions of the code, named as section 7 of the specification     *)
(* names them.                                                             *)
\* ValueError("Can't serialize ..., must be globally defined function")
UnserializableCallableError == Err("UnserializableCallableError")
\* ValueError("No serializable representation for closure ...")
UnserializableClosureError == Err("UnserializableClosureError")
\* ValueError("Cannot convert ... to serializable representation")
UnencodableValueError == Err("UnencodableValueError")
\* ImportError / AttributeError out of _lookup_value
ResolutionError == Err("ResolutionError")
\* TypeError("Cannot convert ... from serializable representation"), a
\* KeyError on a missing reserved key, a JSON text that does not parse
MalformedRepresentationError == Err("MalformedRepresentationError")
\* IndexError on the key table, TypeError out of a constructor call
ReconstructionError == Err("ReconstructionError")

---------------------------------------------------------------------------
(* Text: "%d" and int(). *)

DigitChars == <<"0", "1", "2", "3", "4", "5", "6", "7", "8", "9">>
IsDigit(c) == \E d \in 1..10 : DigitChars[d] = c
DigitVal(c) == (CHOOSE d \in 1..10 : DigitChars[d] = c) - 1

RECURSIVE FormatNat(_)
FormatNat(n) ==
    IF n < 10 THEN <<DigitChars[n + 1]>>
    ELSE FormatNat(n \div 10) \o <<DigitChars[(n % 10) + 1]>>

\* "%d" % n
FormatInt(n) == IF n < 0 THEN <<"-">> \o FormatNat(-n) ELSE FormatNat(n)

RECURSIVE DigitsValue(_, _)
DigitsValue(chunks, acc) ==
    IF chunks = <<>> THEN acc
    ELSE DigitsValue(Tail(chunks), 10 * acc + DigitVal(Head(chunks)))

AllDigits(chunks) ==
    /\ Len(chunks) > 0
    /\ \A i \in 1..Len(chunks) : IsDigit(chunks[i])

\* int(text): [ok, n]; ok is FALSE where int() raises ValueError
ParseInt(chunks) ==
    IF AllDigits(chunks) THEN [ok |-> TRUE, n |-> DigitsValue(chunks, 0)]
    ELSE IF Len(chunks) > 1 /\ Head(chunks) = "-" /\ AllDigits(Tail(chunks))
         THEN [ok |-> TRUE, n |-> 0 - DigitsValue(Tail(chunks), 0)]
    ELSE IF Len(chunks) > 1 /\ Head(chunks) = "+" /\ AllDigits(Tail(chunks))
         THEN [ok |-> TRUE, n |-> DigitsValue(Tail(chunks), 0)]
    ELSE [ok |-> FALSE, n |-> 0]

StartsWith(chunks, prefix) ==
    /\ Len(chunks) >= Len(prefix)
    /\ SubSeq(chunks, 1, Len(prefix)) = prefix

---------------------------------------------------------------------------
(* Ordered mappings. *)

HasKey(items, key) == \E i \in 1..Len(items) : items[i][1] = key
KeyIndex(items, key) == CHOOSE i \in 1..Len(items) : items[i][1] = key
DictGet(items, key) == items[KeyIndex(items, key)][2]

\* d[key] = val: an existing key keeps its position
DictSet(items, key, val) ==
    IF HasKey(items, key)
    THEN [items EXCEPT ![KeyIndex(items, key)] = <<key, val>>]
    ELSE Append(items, <<key, val>>)

\* d.pop(key), the mapping that is left
DictDel(items, key) ==
    IF HasKey(items, key)
    THEN LET i == KeyIndex(items, key)
         IN  SubSeq(items, 1, i - 1) \o SubSeq(items, i + 1, Len(items))
    ELSE items

---------------------------------------------------------------------------
(* The process image: the live modules, classes and functions.             *)
(*                                                                         *)
(*   builtins          tuple                                               *)
(*   pkg.mod           def f(): pass          def h(): pass                *)
(*                     class Point   (to_dict, from_dict, method)          *)
(*                     class Rec     (_asdict only: a named tuple)         *)
(*                     class Opaque  (no conversion capability)            *)
(*                     class Outer:  class Inner (to_dict, from_dict)      *)
(*                     class Other:  class Inner                           *)
(*                     g: a function defined inside another, reading one   *)
(*                        of its locals;  lam: a lambda without free       *)
(*                        variables;  Point().method: a bound method       *)
(***************************************************************************)

DOT == "."
PkgMod == <<"pkg", DOT, "mod">>

\* the root units __import__ can load
Roots == {"builtins", "pkg"}

Image0 ==
    (<<"builtins", "tuple">> :> Cls("tuple")) @@
    (<<"pkg", "mod">> :> Mod("pkg.mod")) @@
    (<<"pkg.mod", "f">> :> Fn("f")) @@
    (<<"pkg.mod", "h">> :> Fn("h")) @@
    (<<"pkg.mod", "Point">> :> Cls("Point")) @@
    (<<"pkg.mod", "Rec">> :> Cls("Rec")) @@
    (<<"pkg.mod", "Opaque">> :> Cls("Opaque")) @@
    (<<"pkg.mod", "Outer">> :> Cls("Outer")) @@
    (<<"pkg.mod", "Other">> :> Cls("Other")) @@
    (<<"Outer", "Inner">> :> Cls("Inner")) @@
    (<<"Other", "Inner">> :> Cls("OtherInner"))

\* value.__module__
ModuleOf(val) == IF val = Cls("tuple") THEN PyStr(<<"builtins">>) ELSE PyStr(PkgMod)

\* value.__name__ (the last segment only, also for a nested class)
NameOf(val) ==
    CASE val = Cls("OtherInner") -> S("Inner")
      [] val = Fn("lam") -> S("<lambda>")
      [] OTHER -> S(val[2])

\* type(fn): "function" is FunctionType, "builtin" is BuiltinFunctionType
TypeOf(val) ==
    CASE val[1] = "fn" -> "function"
      [] val[1] = "meth" -> "method"
      [] val[1] = "cls" -> "type"
      [] val[1] = "obj" -> val[2].cls
      [] OTHER -> val[1]

\* fn.__closure__ is not None
HasClosure(val) == val = Fn("g")

\* hasattr(value, "to_dict"), hasattr(value, "_asdict"),
\* hasattr(class_object, "from_dict")
HasToDict(val) == val[1] = "obj" /\ val[2].cls \in {"Point", "Inner"}
HasAsDict(val) == val[1] = "obj" /\ val[2].cls = "Rec"
HasFromDict(val) == val \in {Cls("Point"), Cls("Inner")}

---------------------------------------------------------------------------
(* The reference resolver. *)

RECURSIVE SplitFrom(_, _)
SplitFrom(chunks, part) ==
    IF chunks = <<>> THEN <<part>>
    ELSE IF Head(chunks) = DOT
         THEN <<part>> \o SplitFrom(Tail(chunks), <<>>)
         ELSE SplitFrom(Tail(chunks), Append(part, Head(chunks)))

\* text.split(".")
Split(chunks) == SplitFrom(chunks, <<>>)

\* __import__(name)
Import(part) ==
    IF Len(part) = 1 /\ part[1] \in Roots THEN Mod(part[1]) ELSE ResolutionError

\* getattr(value, attribute_name) in the process image image
GetAttr(image, val, part) ==
    IF /\ val[1] \in {"mod", "cls"}
       /\ Len(part) = 1
       /\ <<val[2], part[1]>> \in DOMAIN image
    THEN image[<<val[2], part[1]>>]
    ELSE ResolutionError

RECURSIVE Walk(_, _, _)
Walk(image, val, attribute_list) ==
    IF IsErr(val) \/ attribute_list = <<>> THEN val
    ELSE Walk(image, GetAttr(image, val, Head(attribute_list)), Tail(attribute_list))

_lookup_value_uncached(image, module_string, name) ==
    LET module_parts == Split(module_string)
        attribute_list == Tail(module_parts) \o Split(name)
    IN  Walk(image, Import(module_parts[1]), attribute_list)

\* a resolver that resolves anew on every call and stores what it finds over
\* the entry it held: the behaviour the cache is there to exclude
_lookup_value_overwriting(image, c, module_string, name) ==
    LET key == <<module_string, name>>
        value == _lookup_value_uncached(image, module_string, name)
    IN  IF IsErr(value)
        THEN [res |-> value, cache |-> c]
        ELSE [res |-> value, cache |-> (key :> value) @@ c]

\* _lookup_value(module_string, name) with _cache = c: the value returned
\* (or the error raised) and the cache afterwards
_lookup_value(image, c, module_string, name) ==
    LET key == <<module_string, name>>
    IN  IF key \in DOMAIN c
        THEN [res |-> c[key], cache |-> c]
        ELSE LET value == _lookup_value_uncached(image, module_string, name)
             IN  IF IsErr(value)
                 THEN [res |-> value, cache |-> c]
                 ELSE [res |-> value, cache |-> (key :> value) @@ c]

\* class_to_serializable_representation(cls)
class_to_serializable_representation(cls) ==
    PyDict(<< <<S("__module__"), ModuleOf(cls)>>, <<S("__name__"), NameOf(cls)>> >>)

\* the function encoder without its `__closure__` test
function_to_serializable_representation_unguarded(fn) ==
    IF TypeOf(fn) \notin {"function", "builtin"} THEN UnserializableCallableError
    ELSE PyDict(<< <<S("__module__"), ModuleOf(fn)>>, <<S("__name__"), NameOf(fn)>> >>)

\* function_to_serializable_representation(fn)
function_to_serializable_representation(fn) ==
    IF TypeOf(fn) \notin {"function", "builtin"} THEN UnserializableCallableError
    ELSE IF HasClosure(fn) THEN UnserializableClosureError
    ELSE PyDict(<< <<S("__module__"), ModuleOf(fn)>>, <<S("__name__"), NameOf(fn)>> >>)

---------------------------------------------------------------------------
(* The JSON text codec (simplejson): json.dumps and json.loads.  A text is *)
(* a sequence of chunks; the punctuation marks are chunks of their own and *)
(* white space is left out.                                                *)

QUOTE == "\""

RECURSIVE JsonDumps(_)
RECURSIVE DumpElems(_, _)
RECURSIVE DumpMembers(_, _)

DumpElems(elems, i) ==
    IF i > Len(elems) THEN <<>>
    ELSE (IF i > 1 THEN <<",">> ELSE <<>>) \o JsonDumps(elems[i]) \o DumpElems(elems, i + 1)

DumpMembers(items, i) ==
    IF i > Len(items) THEN <<>>
    ELSE (IF i > 1 THEN <<",">> ELSE <<>>)
         \o JsonDumps(items[i][1]) \o <<":">> \o JsonDumps(items[i][2])
         \o DumpMembers(items, i + 1)

\* json.dumps(value): a tuple prints as an array, like a list
JsonDumps(val) ==
    CASE val[1] = "none" -> <<"null">>
      [] val[1] = "bool" -> IF val[2] THEN <<"true">> ELSE <<"false">>
      [] val[1] = "int" -> FormatInt(val[2])
      [] val[1] = "str" -> <<QUOTE>> \o val[2] \o <<QUOTE>>
      [] val[1] \in {"list", "tuple"} -> <<"[">> \o DumpElems(val[2], 1) \o <<"]">>
      [] val[1] = "dict" -> <<"{">> \o DumpMembers(val[2], 1) \o <<"}">>
      [] OTHER -> <<"?">>

(* The parser returns [ok, val, next]: next is the position after the      *)
(* value read.                                                             *)
ParseFail == [ok |-> FALSE, val |-> PyNone, next |-> 0]

RECURSIVE ScanDigits(_, _)
ScanDigits(toks, i) ==
    IF i <= Len(toks) /\ IsDigit(toks[i]) THEN ScanDigits(toks, i + 1) ELSE i

RECURSIVE ScanString(_, _)
ScanString(toks, i) ==
    IF i > Len(toks) THEN 0
    ELSE IF toks[i] = QUOTE THEN i
    ELSE ScanString(toks, i + 1)

RECURSIVE ParseValue(_, _)
RECURSIVE ParseElems(_, _, _)
RECURSIVE ParseMembers(_, _, _)

ParseElems(toks, i, acc) ==
    LET e == ParseValue(toks, i)
    IN  IF ~e.ok \/ e.next > Len(toks) THEN ParseFail
        ELSE IF toks[e.next] = "]"
             THEN [ok |-> TRUE, val |-> PyList(Append(acc, e.val)), next |-> e.next + 1]
        ELSE IF toks[e.next] = ","
             THEN ParseElems(toks, e.next + 1, Append(acc, e.val))
        ELSE ParseFail

ParseMembers(toks, i, acc) ==
    LET key == ParseValue(toks, i)
    IN  IF ~key.ok \/ key.val[1] # "str" \/ key.next > Len(toks) \/ toks[key.next] # ":"
        THEN ParseFail
        ELSE LET e == ParseValue(toks, key.next + 1)
                 items == DictSet(acc, key.val, e.val)
             IN  IF ~e.ok \/ e.next > Len(toks) THEN ParseFail
                 ELSE IF toks[e.next] = "}"
                      THEN [ok |-> TRUE, val |-> PyDict(items), next |-> e.next + 1]
                 ELSE IF toks[e.next] = ","
                      THEN ParseMembers(toks, e.next + 1, items)
                 ELSE ParseFail

ParseValue(toks, i) ==
    IF i > Len(toks) THEN ParseFail
    ELSE LET t == toks[i]
         IN  CASE t = "null" -> [ok |-> TRUE, val |-> PyNone, next |-> i + 1]
               [] t = "true" -> [ok |-> TRUE, val |-> PyBool(TRUE), next |-> i + 1]
               [] t = "false" -> [ok |-> TRUE, val |-> PyBool(FALSE), next |-> i + 1]
               [] IsDigit(t) ->
                    LET j == ScanDigits(toks, i)
                    IN  [ok |-> TRUE,
                         val |-> PyInt(DigitsValue(SubSeq(toks, i, j - 1), 0)),
                         next |-> j]
               [] t = "-" ->
                    LET j == ScanDigits(toks, i + 1)
                    IN  IF j = i + 1 THEN ParseFail
                        ELSE [ok |-> TRUE,
                              val |-> PyInt(0 - DigitsValue(SubSeq(toks, i + 1, j - 1), 0)),
                              next |-> j]
               [] t = QUOTE ->
                    LET j == ScanString(toks, i + 1)
                    IN  IF j = 0 THEN ParseFail
                        ELSE [ok |-> TRUE,
                              val |-> PyStr(SubSeq(toks, i + 1, j - 1)),
                              next |-> j + 1]
               [] t = "[" ->
                    IF i + 1 <= Len(toks) /\ toks[i + 1] = "]"
                    THEN [ok |-> TRUE, val |-> PyList(<<>>), next |-> i + 2]
                    ELSE ParseElems(toks, i + 1, <<>>)
               [] t = "{" ->
                    IF i + 1 <= Len(toks) /\ toks[i + 1] = "}"
                    THEN [ok |-> TRUE, val |-> PyDict(<<>>), next |-> i + 2]
                    ELSE ParseMembers(toks, i + 1, <<>>)
               [] OTHER -> ParseFail

\* json.loads(text): the value, or the error of a text that does not parse
JsonLoads(chunks) ==
    LET p == ParseValue(chunks, 1)
    IN  IF p.ok /\ p.next = Len(chunks) + 1 THEN p.val
        ELSE MalformedRepresentationError

---------------------------------------------------------------------------
(* The recursive encoder. *)

\* primtive_types.return_primitive: the values that pass through untouched
IsPrimitive(val) == val[1] \in {"none", "bool", "int", "str"}

SERIALIZED_DICTIONARY_KEYS_FIELD == <<"__serialized_keys__">>
SERIALIZED_DICTIONARY_KEYS_ELEMENT_PREFIX ==
    SERIALIZED_DICTIONARY_KEYS_FIELD \o <<"element_">>

\* placeholder names counted from one instead of zero
index_to_serialized_key_name_from_one(index) ==
    PyStr(SERIALIZED_DICTIONARY_KEYS_ELEMENT_PREFIX \o FormatInt(index + 1))

\* index_to_serialized_key_name(index)
index_to_serialized_key_name(index) ==
    PyStr(SERIALIZED_DICTIONARY_KEYS_ELEMENT_PREFIX \o FormatInt(index))

\* parse_serialized_keys_index(name): [some, n]; some is FALSE for None
parse_serialized_keys_index(name) ==
    IF StartsWith(name, SERIALIZED_DICTIONARY_KEYS_ELEMENT_PREFIX)
    THEN LET p == ParseInt(SubSeq(name,
                                  Len(SERIALIZED_DICTIONARY_KEYS_ELEMENT_PREFIX) + 1,
                                  Len(name)))
         IN  [some |-> p.ok, n |-> p.n]
    ELSE [some |-> FALSE, n |-> 0]

RECURSIVE to_serializable_repr(_)
RECURSIVE EncodeElems(_, _, _)
RECURSIVE EncodeItems(_, _, _)

\* [to_serializable_repr(element) for element in x]: the sequence, or the
\* first error raised
EncodeElems(elems, i, acc) ==
    IF i > Len(elems) THEN PyList(acc)
    ELSE LET e == to_serializable_repr(elems[i])
         IN  IF IsErr(e) THEN e ELSE EncodeElems(elems, i + 1, Append(acc, e))

\* list_to_serializable_repr(x): type(x)([...]) keeps the kind of x
list_to_serializable_repr(val) ==
    LET r == EncodeElems(val[2], 1, <<>>)
    IN  IF IsErr(r) THEN r ELSE <<val[1], r[2]>>

\* to_json(x)
to_json(val) ==
    LET r == to_serializable_repr(val)
    IN  IF IsErr(r) THEN r ELSE PyStr(JsonDumps(r))

(* The loop of dict_to_serializable_repr; st is                            *)
(* [list: serialized_key_list, names: serialized_keys_to_names, result].   *)
EncodeItems(items, i, st) ==
    IF i > Len(items) THEN st
    ELSE LET key == items[i][1]
             serialized_key_repr == IF key[1] = "str" THEN key ELSE to_json(key)
             known == HasKey(st.names, serialized_key_repr)
             name == IF key[1] = "str" THEN key
                     ELSE IF known THEN DictGet(st.names, serialized_key_repr)
                     ELSE index_to_serialized_key_name(Len(st.list))
             e == to_serializable_repr(items[i][2])
         IN  IF IsErr(serialized_key_repr) THEN [st EXCEPT !.err = serialized_key_repr]
             ELSE IF IsErr(e) THEN [st EXCEPT !.err = e]
             ELSE EncodeItems(items, i + 1,
                    IF key[1] = "str" \/ known
                    THEN [st EXCEPT !.result = DictSet(@, name, e)]
                    ELSE [st EXCEPT !.result = DictSet(@, name, e),
                                    !.names = DictSet(@, serialized_key_repr, name),
                                    !.list = Append(@, serialized_key_repr)])

dict_to_serializable_repr(val) ==
    LET st == EncodeItems(val[2], 1,
                [list |-> <<>>, names |-> <<>>, result |-> <<>>, err |-> PyNone])
    IN  IF IsErr(st.err) THEN st.err
        ELSE IF Len(st.list) > 0
             THEN PyDict(DictSet(st.result, PyStr(SERIALIZED_DICTIONARY_KEYS_FIELD),
                                 PyList(st.list)))
             ELSE PyDict(st.result)

to_serializable_repr(val) ==
    IF IsPrimitive(val) THEN val
    ELSE CASE val[1] = "list" -> list_to_serializable_repr(val)
           [] val[1] = "tuple" ->
                LET payload == list_to_serializable_repr(val)
                IN  IF IsErr(payload) THEN payload
                    ELSE PyDict(<< <<S("__class__"),
                                     class_to_serializable_representation(Cls("tuple"))>>,
                                   <<S("__value__"), payload>> >>)
           [] val[1] = "dict" -> dict_to_serializable_repr(val)
           [] val[1] = "fn" -> function_to_serializable_representation(val)
           [] val[1] = "cls" -> class_to_serializable_representation(val)
           [] OTHER ->
                IF ~(HasToDict(val) \/ HasAsDict(val)) THEN UnencodableValueError
                ELSE LET state_dictionary == to_serializable_repr(val[2].state)
                     IN  IF IsErr(state_dictionary) THEN state_dictionary
                         ELSE PyDict(DictSet(state_dictionary[2], S("__class__"),
                                 class_to_serializable_representation(Cls(val[2].cls))))

---------------------------------------------------------------------------
(* Invoking what a `__class__` entry resolved to.  The classes of pkg.mod   *)
(* take their fields as keyword arguments only (def __init__(self,          *)
(* **fields)); f, h and the other functions take no argument and return     *)
(* None.                                                                    *)

RECURSIVE IsHashable(_)
IsHashable(val) ==
    CASE val[1] \in {"list", "dict"} -> FALSE
      [] val[1] = "tuple" -> \A i \in 1..Len(val[2]) : IsHashable(val[2][i])
      [] OTHER -> TRUE

\* class_object(value)
CallValue(class_object, arg) ==
    IF class_object = Cls("tuple")
    THEN CASE arg[1] \in {"list", "tuple"} -> PyTuple(arg[2])
           [] arg[1] = "dict" -> PyTuple([i \in 1..Len(arg[2]) |-> arg[2][i][1]])
           [] arg[1] = "str" -> PyTuple([i \in 1..Len(arg[2]) |-> S(arg[2][i])])
           [] OTHER -> ReconstructionError
    ELSE ReconstructionError

\* class_object.from_dict(converted_dict)
CallFromDict(class_object, fields) == Obj(class_object[2], PyDict(fields))

\* class_object(**converted_dict)
CallKeywords(class_object, fields) ==
    IF \E i \in 1..Len(fields) : fields[i][1][1] # "str" THEN ReconstructionError
    ELSE CASE class_object = Cls("tuple") ->
                IF fields = <<>> THEN PyTuple(<<>>) ELSE ReconstructionError
           [] class_object[1] = "cls" -> Obj(class_object[2], PyDict(fields))
           [] class_object[1] \in {"fn", "meth"} ->
                IF fields = <<>> THEN PyNone ELSE ReconstructionError
           [] OTHER -> ReconstructionError

---------------------------------------------------------------------------
(* The recursive decoder.  Every operator returns                          *)
(*   [res:   the value returned, or the error raised,                      *)
(*    x:     the argument as the call leaves it (the decoder pops keys),   *)
(*    cache: _cache afterwards,                                            *)
(*    calls: the invocations made so far, each                             *)
(*           [kind, callee, arg, fields]: how class_object was invoked,    *)
(*           with what, and converted_dict after `__class__` was popped].  *)

Ret(res, val, c, log) == [res |-> res, x |-> val, cache |-> c, calls |-> log]

\* non_string_key_objects[index], as Python indexes a list
ListIndex(list, index) ==
    IF 0 <= index /\ index < Len(list) THEN list[index + 1]
    ELSE IF index < 0 /\ 0 - index <= Len(list) THEN list[Len(list) + index + 1]
    ELSE ReconstructionError

(* One round of `[from_serializable_repr(element) for element in x]`, d     *)
(* being what the call on element i returned; st is [res: the elements      *)
(* decoded, xs: the elements as left, cache, calls, err].                   *)
ElemStep(st, i, d) ==
    LET st1 == [st EXCEPT !.xs[i] = d.x, !.cache = d.cache, !.calls = d.calls]
    IN  IF IsErr(d.res) THEN [st1 EXCEPT !.err = d.res]
        ELSE [st1 EXCEPT !.res = Append(@, d.res)]

\* the sequence branches of from_serializable_repr, the loop being done
FinishElems(val, st) ==
    IF IsErr(st.err) THEN Ret(st.err, <<val[1], st.xs>>, st.cache, st.calls)
    ELSE Ret(<<val[1], st.res>>, <<val[1], st.xs>>, st.cache, st.calls)

(* One round of `[from_json(serialized_key) for serialized_key in ...]`, d  *)
(* being what from_json returned; st is [keys, cache, calls, err].          *)
KeyStep(st, d) ==
    LET st1 == [st EXCEPT !.cache = d.cache, !.calls = d.calls]
    IN  IF IsErr(d.res) THEN [st1 EXCEPT !.err = d.res]
        ELSE [st1 EXCEPT !.keys = Append(@, d.res)]

\* x.pop(SERIALIZED_DICTIONARY_KEYS_FIELD, []): the table popped
PopKeyTable(val) ==
    LET field == PyStr(SERIALIZED_DICTIONARY_KEYS_FIELD)
    IN  IF HasKey(val[2], field) THEN DictGet(val[2], field) ELSE PyList(<<>>)

\* the state the comprehension over the key table starts in
KeysInit(table, c, log) ==
    [keys |-> <<>>, cache |-> c, calls |-> log,
     err |-> IF table[1] \in {"list", "tuple"} THEN PyNone
             ELSE MalformedRepresentationError]

(* The state the loop over x.items() starts in, ks being the state the      *)
(* comprehension over the key table ended in; st is [conv: converted_dict,  *)
(* xs: the items of x as left, keys: non_string_key_objects, cache, calls,  *)
(* err].                                                                    *)
ItemsInit(val, ks) ==
    [conv |-> <<>>,
     xs |-> DictDel(val[2], PyStr(SERIALIZED_DICTIONARY_KEYS_FIELD)),
     keys |-> ks.keys, cache |-> ks.cache, calls |-> ks.calls, err |-> ks.err]

(* One round of the loop over x.items(), d being what                       *)
(* from_serializable_repr(v) returned; the key is looked up in the table    *)
(* before v is decoded, and stored after.                                   *)
ItemStep(st, i, d) ==
    LET name == st.xs[i][1]
        serialized_key_index ==
            IF name[1] = "str" THEN parse_serialized_keys_index(name[2])
            ELSE [some |-> FALSE, n |-> 0]
        key == IF serialized_key_index.some
               THEN ListIndex(st.keys, serialized_key_index.n)
               ELSE name
        st1 == [st EXCEPT !.xs[i] = <<name, d.x>>,
                          !.cache = d.cache, !.calls = d.calls]
    IN  IF name[1] # "str" THEN [st EXCEPT !.err = MalformedRepresentationError]
        ELSE IF IsErr(key) THEN [st EXCEPT !.err = key]
        ELSE IF IsErr(d.res) THEN [st1 EXCEPT !.err = d.res]
        ELSE IF ~IsHashable(key) THEN [st1 EXCEPT !.err = ReconstructionError]
        ELSE [st1 EXCEPT !.conv = DictSet(@, key, d.res)]

\* the tail of dict_from_serializable_repr with its branches in another
\* order: from_dict is looked for before `__value__`
Reconstruct_from_dict_first(converted_dict, xitems, c, log) ==
    IF ~HasKey(converted_dict, S("__class__"))
    THEN Ret(PyDict(converted_dict), PyDict(xitems), c, log)
    ELSE LET class_object == DictGet(converted_dict, S("__class__"))
             fields == DictDel(converted_dict, S("__class__"))
             call(kind, arg) ==
                 [kind |-> kind, callee |-> class_object, arg |-> arg, fields |-> fields]
         IN  IF HasFromDict(class_object)
             THEN Ret(CallFromDict(class_object, fields), PyDict(xitems), c,
                      Append(log, call("from_dict", PyDict(fields))))
             ELSE IF HasKey(fields, S("__value__"))
             THEN IF ~HasKey(xitems, S("__value__"))
                  THEN Ret(MalformedRepresentationError, PyDict(xitems), c, log)
                  ELSE LET arg == DictGet(xitems, S("__value__"))
                       IN  Ret(CallValue(class_object, arg), PyDict(xitems), c,
                               Append(log, call("value", arg)))
             ELSE Ret(CallKeywords(class_object, fields), PyDict(xitems), c,
                      Append(log, call("keywords", PyDict(fields))))

\* the tail of dict_from_serializable_repr, from `if "__class__" in ...`
Reconstruct(converted_dict, xitems, c, log) ==
    IF ~HasKey(converted_dict, S("__class__"))
    THEN Ret(PyDict(converted_dict), PyDict(xitems), c, log)
    ELSE LET class_object == DictGet(converted_dict, S("__class__"))
             fields == DictDel(converted_dict, S("__class__"))
             call(kind, arg) ==
                 [kind |-> kind, callee |-> class_object, arg |-> arg, fields |-> fields]
         IN  IF HasKey(fields, S("__value__"))
             THEN IF ~HasKey(xitems, S("__value__"))
                  THEN Ret(MalformedRepresentationError, PyDict(xitems), c, log)
                  ELSE LET arg == DictGet(xitems, S("__value__"))
                       IN  Ret(CallValue(class_object, arg), PyDict(xitems), c,
                               Append(log, call("value", arg)))
             ELSE IF HasFromDict(class_object)
             THEN Ret(CallFromDict(class_object, fields), PyDict(xitems), c,
                      Append(log, call("from_dict", PyDict(fields))))
             ELSE Ret(CallKeywords(class_object, fields), PyDict(xitems), c,
                      Append(log, call("keywords", PyDict(fields))))

\* dict_from_serializable_repr after its loop
FinishItems(st) ==
    IF IsErr(st.err) THEN Ret(st.err, PyDict(st.xs), st.cache, st.calls)
    ELSE Reconstruct(st.conv, st.xs, st.cache, st.calls)

\* the first branch of dict_from_serializable_repr: `if "__name__" in x`
ResolveReference(image, val, c, log) ==
    IF ~HasKey(val[2], S("__module__"))
    THEN Ret(MalformedRepresentationError, val, c, log)
    ELSE LET module_string == DictGet(val[2], S("__module__"))
             name == DictGet(val[2], S("__name__"))
             left == PyDict(DictDel(DictDel(val[2], S("__module__")), S("__name__")))
         IN  IF module_string[1] # "str" \/ name[1] # "str"
             THEN Ret(MalformedRepresentationError, left, c, log)
             ELSE LET r == _lookup_value(image, c, module_string[2], name[2])
                  IN  Ret(r.res, left, r.cache, log)

\* from_json after json.loads
AfterLoads(json_string, parsed, c, log) ==
    IF json_string[1] # "str" THEN Ret(MalformedRepresentationError, json_string, c, log)
    ELSE Ret(parsed, json_string, c, log)

RECURSIVE from_serializable_repr(_, _, _, _)
RECURSIVE DecodeElems(_, _, _, _)
RECURSIVE DecodeKeys(_, _, _, _)
RECURSIVE DecodeItems(_, _, _)

DecodeElems(image, elems, i, st) ==
    IF i > Len(elems) \/ IsErr(st.err) THEN st
    ELSE DecodeElems(image, elems, i + 1,
            ElemStep(st, i, from_serializable_repr(image, elems[i], st.cache, st.calls)))

\* from_json(json_string)
from_json(image, json_string, c, log) ==
    IF json_string[1] # "str" \/ IsErr(JsonLoads(json_string[2]))
    THEN AfterLoads(json_string, JsonLoads(json_string[2]), c, log)
    ELSE from_serializable_repr(image, JsonLoads(json_string[2]), c, log)

DecodeKeys(image, table, i, st) ==
    IF i > Len(table) \/ IsErr(st.err) THEN st
    ELSE DecodeKeys(image, table, i + 1,
            KeyStep(st, from_json(image, table[i], st.cache, st.calls)))

DecodeItems(image, i, st) ==
    IF i > Len(st.xs) \/ IsErr(st.err) THEN st
    ELSE DecodeItems(image, i + 1,
            ItemStep(st, i, from_serializable_repr(image, st.xs[i][2], st.cache, st.calls)))

dict_from_serializable_repr(image, val, c, log) ==
    IF HasKey(val[2], S("__name__")) THEN ResolveReference(image, val, c, log)
    ELSE FinishItems(DecodeItems(image, 1,
            ItemsInit(val, DecodeKeys(image, PopKeyTable(val)[2], 1,
                                      KeysInit(PopKeyTable(val), c, log)))))

from_serializable_repr(image, val, c, log) ==
    IF IsPrimitive(val) THEN Ret(val, val, c, log)
    ELSE CASE val[1] \in {"list", "tuple"} ->
                FinishElems(val, DecodeElems(image, val[2], 1,
                    [res |-> <<>>, xs |-> val[2], cache |-> c, calls |-> log,
                     err |-> PyNone]))
           [] val[1] = "dict" -> dict_from_serializable_repr(image, val, c, log)
           [] OTHER -> Ret(MalformedRepresentationError, val, c, log)

---------------------------------------------------------------------------
(* The caller.  It builds a value x out of the seeds below, hands it to the *)
(* encoder and the result to the decoder, twice; or hands x itself to the   *)
(* decoder, as a representation that came from elsewhere; or builds the     *)
(* reference of a class or function and resolves it.                        *)

Seeds ==
    {PyNone, PyBool(TRUE), S("a"), PyDict(<<>>)}
    \cup {PyInt(n) : n \in 1..MaxInt}
    \cup {Fn("f"), Fn("g"), Fn("lam"), Meth("method")}
    \cup {Cls("Point"), Cls("Inner"), Cls("OtherInner"), Cls("tuple")}

\* what the caller appends to a sequence or stores under a new key
Elems == {PyInt(1), S("a")}

\* the keys the caller uses in a mapping of its own
Keys == {S("a"), S("b"), PyInt(1), PyTuple(<<PyInt(1)>>), Cls("Inner"), Cls("OtherInner")}

\* references, as a representation from elsewhere may hold them
Reference(module_string, name) ==
    PyDict(<< <<S("__module__"), PyStr(module_string)>>, <<S("__name__"), PyStr(name)>> >>)

References ==
    {Reference(<<"builtins">>, <<"tuple">>), Reference(PkgMod, <<"Point">>),
     Reference(PkgMod, <<"Rec">>), Reference(PkgMod, <<"f">>),
     Reference(<<"nosuchmodule">>, <<"X">>)}

\* key tables, as a representation from elsewhere may hold them
KeyTables ==
    {PyList(<<to_json(PyInt(1))>>),
     PyList(<<to_json(PyInt(1)), to_json(PyTuple(<<PyInt(1)>>))>>)}

\* the reserved entries of a representation from elsewhere
ReservedEntries ==
    {<<S("__class__"), r>> : r \in References}
    \cup {<<S("__value__"), PyList(<<PyInt(1)>>)>>}
    \cup {<<PyStr(SERIALIZED_DICTIONARY_KEYS_FIELD), t>> : t \in KeyTables}
    \cup {<<index_to_serialized_key_name(i), PyInt(1)>> : i \in (0 - 1)..MaxIndex}

Leaves == Seeds \cup References \cup KeyTables \cup Elems

RECURSIVE Size(_)
RECURSIVE SumSizes(_, _)
SumSizes(vals, i) == IF i > Len(vals) THEN 0 ELSE Size(vals[i]) + SumSizes(vals, i + 1)
Size(val) ==
    IF val \in Leaves THEN 1
    ELSE CASE val[1] \in {"list", "tuple"} -> 1 + SumSizes(val[2], 1)
           [] val[1] = "dict" -> 1 + SumSizes([i \in 1..Len(val[2]) |-> val[2][i][2]], 1)
           [] val[1] = "obj" -> 1 + Size(val[2].state)
           [] OTHER -> 1

Init ==
    /\ x \in Seeds
    /\ ir = PyNone
    /\ ir0 = PyNone
    /\ out = PyNone
    /\ out0 = PyNone
    /\ calls = <<>>
    /\ cache = <<>>
    /\ attrs = Image0
    /\ first = <<>>
    /\ pc = "build"

Building == pc = "build" /\ Size(x) < MaxSize

WrapList ==
    /\ Building
    /\ x' = PyList(<<x>>)
    /\ UNCHANGED <<ir, ir0, out, out0, calls, cache, attrs, first, pc>>

WrapTuple ==
    /\ Building
    /\ x' = PyTuple(<<x>>)
    /\ UNCHANGED <<ir, ir0, out, out0, calls, cache, attrs, first, pc>>

AppendElem ==
    /\ Building
    /\ x[1] \in {"list", "tuple"}
    /\ \E e \in Elems : x' = [x EXCEPT ![2] = Append(@, e)]
    /\ UNCHANGED <<ir, ir0, out, out0, calls, cache, attrs, first, pc>>

WrapDict ==
    /\ Building
    /\ \E key \in Keys : x' = PyDict(<< <<key, x>> >>)
    /\ UNCHANGED <<ir, ir0, out, out0, calls, cache, attrs, first, pc>>

PutItem ==
    /\ Building
    /\ x[1] = "dict"
    /\ \E key \in Keys, e \in Elems :
          /\ ~HasKey(x[2], key)
          /\ x' = PyDict(DictSet(x[2], key, e))
    /\ UNCHANGED <<ir, ir0, out, out0, calls, cache, attrs, first, pc>>

PutReserved ==
    /\ Building
    /\ x[1] = "dict"
    /\ \E entry \in ReservedEntries :
          /\ ~HasKey(x[2], entry[1])
          /\ x' = PyDict(DictSet(x[2], entry[1], entry[2]))
    /\ UNCHANGED <<ir, ir0, out, out0, calls, cache, attrs, first, pc>>

\* an instance of cls whose to_dict / _asdict returns x
WrapObj ==
    /\ Building
    /\ x[1] = "dict"
    /\ \E cls \in {"Point", "Rec", "Inner", "Opaque"} : x' = Obj(cls, x)
    /\ UNCHANGED <<ir, ir0, out, out0, calls, cache, attrs, first, pc>>

\* out = to_serializable_repr(x)
Encode ==
    /\ pc = "build"
    /\ out' = to_serializable_repr(x)
    /\ ir' = out'
    /\ pc' = "encoded"
    /\ UNCHANGED <<x, ir0, out0, calls, cache, attrs, first>>

DecodeStep(val, next) ==
    LET d == from_serializable_repr(attrs, val, cache, <<>>)
    IN  /\ ir' = d.x
        /\ out' = d.res
        /\ calls' = d.calls
        /\ cache' = d.cache
        /\ first' = first @@ d.cache
        /\ pc' = next

\* out = from_serializable_repr(ir), ir being what the encoder returned
Decode ==
    /\ pc = "encoded"
    /\ ~IsErr(out)
    /\ DecodeStep(ir, "decoded")
    /\ ir0' = ir
    /\ out0' = out'
    /\ UNCHANGED <<x, attrs>>

\* out = from_serializable_repr(x), x being a representation from elsewhere
DecodeForeign ==
    /\ pc = "build"
    /\ DecodeStep(x, "foreign")
    /\ ir0' = x
    /\ out0' = out'
    /\ UNCHANGED <<x, attrs>>

\* out = from_serializable_repr(ir) once more, on the same object
DecodeAgain ==
    /\ pc \in {"decoded", "foreign"}
    /\ DecodeStep(ir, IF pc = "decoded" THEN "decoded again" ELSE "foreign again")
    /\ UNCHANGED <<x, ir0, out0, attrs>>

\* ir = class_to_serializable_representation(x), or the function's
BuildReference ==
    /\ pc = "build"
    /\ x[1] \in {"cls", "fn", "meth"}
    /\ ir' = IF x[1] = "cls" THEN class_to_serializable_representation(x)
             ELSE function_to_serializable_representation(x)
    /\ out' = ir'
    /\ pc' = "referenced"
    /\ UNCHANGED <<x, ir0, out0, calls, cache, attrs, first>>

LookupStep(module_string, name, next) ==
    LET r == _lookup_value(attrs, cache, module_string, name)
    IN  /\ out' = r.res
        /\ cache' = r.cache
        /\ first' = first @@ r.cache
        /\ pc' = next

\* out = class_from_serializable_representation(ir), or the function's
Resolve ==
    /\ pc = "referenced"
    /\ ~IsErr(ir)
    /\ LookupStep(DictGet(ir[2], S("__module__"))[2], DictGet(ir[2], S("__name__"))[2],
                  "resolved")
    /\ UNCHANGED <<x, ir, ir0, out0, calls, attrs>>

Next ==
    \/ WrapList \/ WrapTuple \/ AppendElem \/ WrapDict \/ PutItem \/ PutReserved
    \/ WrapObj \/ Encode \/ Decode \/ DecodeForeign \/ DecodeAgain
    \/ BuildReference \/ Resolve

Spec == Init /\ [][Next]_vars

---------------------------------------------------------------------------
(* The resolver on its own, in a process whose modules are rebound while    *)
(* it runs.                                                                 *)

ModuleStrings == {<<"builtins">>, PkgMod, <<"pkg">>, <<"nosuchmodule">>}

QualifiedNames ==
    {<<"tuple">>, <<"f">>, <<"Point">>, <<"Outer", DOT, "Inner">>,
     <<"mod", DOT, "f">>, <<"X">>}

\* the names of pkg.mod that are assigned to at run time, and the values
\* they are bound to
Rebindable == {<<"pkg.mod", "f">>, <<"pkg.mod", "Point">>}
Rebinds == {Fn("f"), Fn("h"), Cls("Point")}

InitResolver == Init /\ x = PyNone

\* out = _lookup_value(module_string, name); x keeps the two arguments
Lookup ==
    /\ pc \in {"build", "looked"}
    /\ \E module_string \in ModuleStrings, name \in QualifiedNames :
          /\ x' = PyTuple(<<PyStr(module_string), PyStr(name)>>)
          /\ LookupStep(module_string, name, "looked")
    /\ UNCHANGED <<ir, ir0, out0, calls, attrs>>

\* setattr(pkg.mod, name, value), by the program the codec runs in
Rebind ==
    /\ pc \in {"build", "looked"}
    /\ \E place \in Rebindable, value \in Rebinds :
          /\ attrs[place] # value
          /\ attrs' = [attrs EXCEPT ![place] = value]
    /\ UNCHANGED <<x, ir, ir0, out, out0, calls, cache, first, pc>>

NextResolver == Lookup \/ Rebind

SpecResolver == InitResolver /\ [][NextResolver]_vars

---------------------------------------------------------------------------
(* Properties. *)

KeysField == PyStr(SERIALIZED_DICTIONARY_KEYS_FIELD)

IsPlaceholder(key) == key[1] = "str" /\ parse_serialized_keys_index(key[2]).some

\* the key table a mapping carries: the entries of its `__serialized_keys__`
TableOf(items) ==
    IF HasKey(items, KeysField) /\ DictGet(items, KeysField)[1] = "list"
    THEN DictGet(items, KeysField)[2]
    ELSE <<>>

ReservedNames ==
    {S("__class__"), S("__value__"), S("__module__"), S("__name__"), KeysField}

\* a function its module binds under its own name
IsModuleLevelFunction(val) ==
    /\ val[1] = "fn"
    /\ ~HasClosure(val)
    /\ <<"pkg.mod", NameOf(val)[2][1]>> \in DOMAIN attrs
    /\ attrs[<<"pkg.mod", NameOf(val)[2][1]>>] = val

\* a class or function some dotted attribute path leads to
ReachableByPath(val) ==
    /\ val[1] \in {"cls", "fn"}
    /\ \E place \in DOMAIN attrs : attrs[place] = val

(* The values the round trip is stated for: primitives, lists, tuples,      *)
(* mappings with string and non-string keys (no reserved name among the     *)
(* string keys), module-level functions, classes, and instances of a class  *)
(* with to_dict and from_dict.                                              *)
RECURSIVE Supported(_)
Supported(val) ==
    CASE IsPrimitive(val) -> TRUE
      [] val[1] \in {"list", "tuple"} -> \A i \in 1..Len(val[2]) : Supported(val[2][i])
      [] val[1] = "dict" ->
            \A i \in 1..Len(val[2]) :
                /\ Supported(val[2][i][1])
                /\ Supported(val[2][i][2])
                /\ val[2][i][1] \notin ReservedNames
                /\ ~IsPlaceholder(val[2][i][1])
      [] val[1] = "fn" -> IsModuleLevelFunction(val)
      [] val[1] = "cls" -> TRUE
      [] val[1] = "obj" -> HasToDict(val) /\ Supported(val[2].state)
      [] OTHER -> FALSE

(* C1: for every supported value x, from_serializable_repr(                 *)
(* to_serializable_repr(x)) is structurally equal to x: the encoder         *)
(* accepts x and the decoder returns a value equal to it, with the same     *)
(* sequence kinds, keys, values and types.                                  *)
C1_RoundTrip ==
    /\ (pc = "encoded" /\ Supported(x)) => ~IsErr(out)
    /\ (pc = "decoded" /\ Supported(x)) => out = x

(* C2: when a tagged mapping has both `__class__` and `__value__`, the type *)
(* is invoked with the decoded payload, so a tuple decodes to a tuple none  *)
(* of whose elements is a mapping of the representation left undecoded.     *)
C2_DecodedPayload ==
    /\ pc \in {"decoded", "foreign"} =>
          \A i \in 1..Len(calls) :
              calls[i].kind = "value" =>
                  calls[i].arg = DictGet(calls[i].fields, S("__value__"))
    /\ (pc = "decoded" /\ x[1] = "tuple") =>
          /\ out[1] = "tuple"
          /\ Len(out[2]) = Len(x[2])
          /\ \A i \in 1..Len(x[2]) : out[2][i][1] = x[2][i][1]

\* the three parts of C3 for the input mapping input and its encoding result
KeyTableWellFormed(input, result) ==
    LET table == TableOf(result[2])
    IN  /\ \A i, j \in 1..Len(table) : table[i] = table[j] => i = j
        /\ \A n \in 1..Len(input[2]) :
              LET key == input[2][n][1]
              IN  key[1] # "str" =>
                    \E i \in 1..Len(table) :
                        /\ table[i] = to_json(key)
                        /\ HasKey(result[2], index_to_serialized_key_name(i - 1))
        /\ \A n \in 1..Len(result[2]) :
              LET index == parse_serialized_keys_index(result[2][n][1][2])
              IN  index.some =>
                    /\ 0 <= index.n
                    /\ index.n < Len(table)
                    /\ \E m \in 1..Len(input[2]) :
                          /\ input[2][m][1][1] # "str"
                          /\ to_json(input[2][m][1]) = table[index.n + 1]

\* no string key of the mapping is `__serialized_keys__` or a placeholder name
NoReservedKey(val) ==
    \A n \in 1..Len(val[2]) :
        val[2][n][1] # KeysField /\ ~IsPlaceholder(val[2][n][1])

(* C3 as stated: for every input mapping the result of                      *)
(* dict_to_serializable_repr has a well-formed key table: no duplicate      *)
(* entry, one placeholder per JSON text, every placeholder index within the *)
(* table and naming the JSON text of the key it replaced.                   *)
C3_KeyTableAnyMapping ==
    (pc = "encoded" /\ x[1] = "dict" /\ ~IsErr(out)) => KeyTableWellFormed(x, out)

(* C3 as amended: the same, for every input mapping none of whose string    *)
(* keys is `__serialized_keys__` or a placeholder name.                     *)
C3_KeyTableWellFormed ==
    (pc = "encoded" /\ x[1] = "dict" /\ NoReservedKey(x) /\ ~IsErr(out))
        => KeyTableWellFormed(x, out)

\* two keys with one JSON text were encoded under one placeholder
C3_Witness ==
    /\ pc = "encoded"
    /\ x[1] = "dict"
    /\ NoReservedKey(x)
    /\ ~IsErr(out)
    /\ HasKey(x[2], Cls("Inner"))
    /\ HasKey(x[2], Cls("OtherInner"))
    /\ Len(TableOf(out[2])) = 1
    /\ HasKey(out[2], index_to_serialized_key_name(0))

(* C4: encoding a function with closure data fails with the closure error   *)
(* and yields no representation; encoding a module-level function yields    *)
(* its `__module__`/`__name__` mapping, and decoding that returns the same   *)
(* function object.                                                         *)
C4_ClosureRejected ==
    /\ (pc = "encoded" /\ x[1] = "fn" /\ HasClosure(x)) =>
          out = UnserializableClosureError /\ ir = out
    /\ (pc = "encoded" /\ IsModuleLevelFunction(x)) =>
          out = Reference(ModuleOf(x)[2], NameOf(x)[2])
    /\ (pc = "decoded" /\ IsModuleLevelFunction(x)) => out = x

\* the closure g was handed to the encoder and refused
C4_Witness ==
    /\ pc = "encoded"
    /\ x = Fn("g")
    /\ out = UnserializableClosureError

(* C5: encoding a callable that is not a plain module-level function (a     *)
(* bound method, a lambda) fails with UnserializableCallableError.          *)
C5_CallableRejected ==
    (pc = "encoded" /\ (x[1] = "meth" \/ x = Fn("lam")))
        => out = UnserializableCallableError

(* C6: for every class or function reachable by a dotted attribute path,    *)
(* a nested class included, resolving the reference built for it returns    *)
(* the value itself.                                                        *)
C6_ReferenceInverse ==
    /\ (pc = "referenced" /\ ReachableByPath(x)) => ~IsErr(out)
    /\ (pc = "resolved" /\ ReachableByPath(x)) => out = x

\* a placeholder key whose index is outside [0, len(key table))
Dangling(items) ==
    \E n \in 1..Len(items) :
        LET index == IF items[n][1][1] = "str"
                     THEN parse_serialized_keys_index(items[n][1][2])
                     ELSE [some |-> FALSE, n |-> 0]
        IN  index.some /\ (index.n < 0 \/ index.n >= Len(TableOf(items)))

\* a mapping whose keys are strings and whose values, the key table apart,
\* are primitives: nothing but a placeholder can make its decoding fail
PlainEntries(items) ==
    \A n \in 1..Len(items) :
        /\ items[n][1][1] = "str"
        /\ items[n][1] \notin {S("__name__"), S("__class__")}
        /\ items[n][1] = KeysField \/ IsPrimitive(items[n][2])

(* C7: decoding a mapping with a placeholder key whose index is outside     *)
(* [0, len(key table)) (negative, too large, or no table at all) fails      *)
(* with ReconstructionError; no other table entry is substituted.           *)
C7_DanglingPlaceholderFails ==
    (pc = "foreign" /\ ir0[1] = "dict" /\ PlainEntries(ir0[2]) /\ Dangling(ir0[2]))
        => out = ReconstructionError

\* the (module, name) pair of the lookup that has just returned
LookedKey == <<x[2][1][2], x[2][2][2]>>

(* C8: the resolver cache only grows, and only by successful resolutions:   *)
(* a failed resolution leaves it unchanged, a stored entry is never changed *)
(* or removed, and a later resolution of the pair returns the value first   *)
(* resolved, also after the name was rebound.                               *)
C8_CacheOnlyGrows ==
    [][/\ \A key \in DOMAIN cache : key \in DOMAIN cache' /\ cache'[key] = cache[key]
       /\ (pc' = "looked" /\ IsErr(out')) => cache' = cache
       /\ \A key \in DOMAIN cache' \ DOMAIN cache :
             pc' = "looked" /\ key = LookedKey' /\ cache'[key] = out'
       /\ (pc' = "looked" /\ LookedKey' \in DOMAIN first) => out' = first[LookedKey']
      ]_vars

\* a lookup answered from the cache although the name is bound to another
\* value by now
C8_Witness ==
    /\ pc = "looked"
    /\ LookedKey \in DOMAIN cache
    /\ out = cache[LookedKey]
    /\ _lookup_value_uncached(attrs, LookedKey[1], LookedKey[2]) # out

(* C9: the decoder leaves the representation it is passed unchanged, so     *)
(* decoding the same representation object again gives an equal result.     *)
C9_RepresentationUnchanged ==
    /\ pc \in {"decoded", "foreign"} => ir = ir0
    /\ pc \in {"decoded again", "foreign again"} => out = out0

\* the invocation the decoding of the whole mapping ended with
LastCall == calls[Len(calls)]

(* C10: reconstruction precedence for a decoded mapping with `__class__`:    *)
(* with `__value__` the type is invoked with that one value; else a type     *)
(* with from_dict gets from_dict(fields); else the constructor gets the      *)
(* fields as keyword arguments; the fields hold neither `__class__` nor      *)
(* `__serialized_keys__`.  A mapping without `__class__` and `__name__`      *)
(* decodes to a plain mapping.                                              *)
C10_ReconstructionPrecedence ==
    pc \in {"decoded", "foreign"} =>
        /\ \A i \in 1..Len(calls) :
              LET c == calls[i]
                  byValue == HasKey(c.fields, S("__value__"))
              IN  /\ c.kind = "value" <=> byValue
                  /\ c.kind = "from_dict" <=> (~byValue /\ HasFromDict(c.callee))
                  /\ c.kind = "keywords" <=> (~byValue /\ ~HasFromDict(c.callee))
                  /\ c.kind # "value" =>
                        /\ c.arg = PyDict(c.fields)
                        /\ ~HasKey(c.fields, S("__class__"))
                        /\ ~HasKey(c.fields, KeysField)
        /\ (ir0[1] = "dict" /\ ~HasKey(ir0[2], S("__name__")) /\ ~IsErr(out)) =>
              IF HasKey(ir0[2], S("__class__"))
              THEN /\ Len(calls) > 0
                   /\ LastCall.kind =
                        IF HasKey(ir0[2], S("__value__")) THEN "value"
                        ELSE IF HasFromDict(LastCall.callee) THEN "from_dict"
                        ELSE "keywords"
                   /\ LastCall.kind = "value" =>
                        LastCall.arg = DictGet(ir[2], S("__value__"))
              ELSE out[1] = "dict"

\* an instance rebuilt by from_dict from fields that came with a key table
C10_Witness ==
    /\ pc = "decoded"
    /\ ir0[1] = "dict"
    /\ HasKey(ir0[2], S("__class__"))
    /\ HasKey(ir0[2], KeysField)
    /\ Len(calls) = 1
    /\ LastCall.kind = "from_dict"
    /\ LastCall.callee = Cls("Point")
    /\ out = x

=============================================================================
